---- MODULE Spec2Model ----
(***************************************************************************)
(* The backtracking engine of src/src/backtracking.rs                      *)
(* (get_sequence_to_final_state) and the consumers it is run on: the two   *)
(* demonstration states Counter and JumpingCounter, and an arbitrary       *)
(* State implementation given by a finite successor table; and the shapes  *)
(* and the board of src/src/main.rs.                                       *)
(***************************************************************************)
EXTENDS Integers, Sequences, FiniteSets, TLC

VARIABLES
    consumer,    \* which State implementation the call is made on
    edges,       \* consumer "Table": node -> the Vec its get_possible_successors returns
    finals,      \* consumer "Table": the nodes for which is_final is true
    initial,     \* the initial_state argument
    verbosity,   \* the verbosity argument
    attempts,    \* Vec<Attempt>: sequence of [state, successors_to_try]
    dead_ends,   \* HashSet<AState>
    pc,          \* "start" | "loop" | "ok" | "err" | "panic"
    result,      \* the Vec<AState> of an Ok return, <<>> otherwise
    output,      \* the lines printed so far
    calls,       \* the states get_possible_successors was invoked on, in order
    evaluated,   \* the candidates popped so far: [parent, successor], in order
    shape,       \* main.rs: the Shape that rotate is applied to
    rotations,   \* main.rs: the rotate calls made so far: [from, clockwise, to]
    board,       \* main.rs: Board.shapes, cell index 0..8 -> Shape
    op,          \* main.rs: the last Board operation or key event, its arguments and its result
    shapes_to_place,          \* make_board_via_tui: the shapes not placed yet
    board_index,              \* make_board_via_tui: the cell being filled
    shape_to_allocate_index,  \* make_board_via_tui: the selected entry of shapes_to_place (from 0)
    clockwise_rotations,      \* make_board_via_tui: the rotation of the selected shape
    keys,                     \* make_board_via_tui: the arrow keys read so far
    stage,                    \* main: "none" | "edit" | "made" | "play" | "done" | a panic
    history                   \* play_game_via_tui: Vec<Board>

engineVars == <<consumer, edges, finals, initial, verbosity, attempts, dead_ends,
                pc, result, output, calls, evaluated>>

boardVars == <<shape, rotations, board, op>>

gameVars == <<shapes_to_place, board_index, shape_to_allocate_index,
              clockwise_rotations, keys, stage, history>>

vars == <<consumer, edges, finals, initial, verbosity, attempts, dead_ends,
          pc, result, output, calls, evaluated, shape, rotations, board, op,
          shapes_to_place, board_index, shape_to_allocate_index,
          clockwise_rotations, keys, stage, history>>

\* ------------------------------------------------------------------ bounds

\* The Table consumer's successor lists hold at most MaxEdges entries in total.
MaxEdges == 3

\* JumpingCounter is started at a value in 0..MaxStart.
MaxStart == 12

\* rotate is applied at most MaxRotations times in a row.
MaxRotations == 2

\* is_collission_free is asked about displacements of at most MaxShift grid
\* units along one axis.
MaxShift == 3

\* make_board_via_tui reads at most MaxKeys arrow keys.
MaxKeys == 2

\* play_game_via_tui makes at most MaxMoves moves.
MaxMoves == 2

\* The states of the Table consumer.
Nodes == {1, 2, 3}

\* ------------------------------------------------------- program constants

\* Counter::is_final: self.value == 7
CounterTarget == 7

\* JumpingCounter::is_final: self.value == 4
JumpingTarget == 4

\* JumpingCounter::get_possible_successors: match self.value { 0..=10 => .. }
JumpingCeiling == 10

\* demo_example_1: Counter { value: 1i32 }
CounterStart == 1

Verbosity == {"Quiet", "Info", "Trace"}

\* ---------------------------------------------------------------- helpers

RECURSIVE SeqsUpTo(_, _)
\* all sequences over S of length at most n
SeqsUpTo(S, n) ==
    IF n = 0 THEN {<<>>}
    ELSE LET shorter == SeqsUpTo(S, n - 1)
         IN shorter \cup {Append(q, x) : q \in {r \in shorter : Len(r) = n - 1}, x \in S}

RECURSIVE SumLen(_, _)
\* total number of entries of the successor lists of the nodes in S
SumLen(f, S) ==
    IF S = {} THEN 0
    ELSE LET x == CHOOSE y \in S : TRUE IN Len(f[x]) + SumLen(f, S \ {x})

\* the successor tables a Table consumer is drawn from
Tables ==
    {f \in [Nodes -> SeqsUpTo(Nodes, MaxEdges)] : SumLen(f, Nodes) <= MaxEdges}

NoEdges == [n \in Nodes |-> <<>>]

Range(q) == {q[i] : i \in 1..Len(q)}

\* ------------------------------------------------------------ the consumers

\* mutant: the successor is value + 2
CounterSuccessors_PlusTwo(value) == <<value + 2>>

\* Counter::get_possible_successors
CounterSuccessors(value) == <<value + 1>>

\* Counter::is_final
CounterIsFinal(value) == value = CounterTarget

\* mutant: the two successors are produced in the other order
JumpingSuccessors_Swapped(value) ==
    IF value >= 0 /\ value <= JumpingCeiling
    THEN <<value + 2, value + 1>>
    ELSE <<>>

\* JumpingCounter::get_possible_successors
JumpingSuccessors(value) ==
    IF value >= 0 /\ value <= JumpingCeiling
    THEN <<value + 1, value + 2>>
    ELSE <<>>

\* JumpingCounter::is_final
JumpingIsFinal(value) == value = JumpingTarget

\* State::get_possible_successors of the consumer the call is made on
get_possible_successors(s) ==
    CASE consumer = "Counter" -> CounterSuccessors(s)
      [] consumer = "JumpingCounter" -> JumpingSuccessors(s)
      [] OTHER -> edges[s]

\* State::is_final of the consumer the call is made on
is_final(s) ==
    CASE consumer = "Counter" -> CounterIsFinal(s)
      [] consumer = "JumpingCounter" -> JumpingIsFinal(s)
      [] OTHER -> s \in finals

\* --------------------------------------------------------------- the engine

\* struct Attempt
Attempt(s, todo) == [state |-> s, successors_to_try |-> todo]

\* mutant: the candidate is taken from the front of successors_to_try
PopSuccessor_First(todo) ==
    [successor |-> todo[1], rest |-> SubSeq(todo, 2, Len(todo))]

\* Vec::pop on successors_to_try: the last element, and the Vec without it
PopSuccessor(todo) ==
    [successor |-> todo[Len(todo)], rest |-> SubSeq(todo, 1, Len(todo) - 1)]

\* mutant: only the states on the path are rejected
TriedBefore_OnPathOnly(att, de, s) ==
    \E i \in 1..Len(att) : att[i].state = s

\* mutant: only the dead ends are rejected
TriedBefore_DeadEndsOnly(att, de, s) == s \in de

\* attempts.iter().any(|a| a.state == successor) || dead_ends.contains(successor)
TriedBefore(att, de, s) ==
    (\E i \in 1..Len(att) : att[i].state = s) \/ s \in de

\* attempts.iter().map(|a| a.state.clone()).collect()
StatesOf(att) == [i \in 1..Len(att) |-> att[i].state]

\* mutant: the Trace lines are printed with Info as well
TraceOnly_AlsoInfo(v, lines) == IF v # "Quiet" THEN lines ELSE <<>>

\* the lines a step prints, by verbosity
TraceOnly(v, lines) == IF v = "Trace" THEN lines ELSE <<>>

UnlessQuiet(v, lines) == IF v # "Quiet" THEN lines ELSE <<>>

\* the attempts Vec after construction
InitialAttempts(s) == <<Attempt(s, get_possible_successors(s))>>

\* mutant: the path is collected before the final Attempt is pushed
FoundFinal_CollectedBeforePush(att, de, v) ==
    LET n == Len(att)
        p == PopSuccessor(att[n].successors_to_try)
        att1 == [att EXCEPT ![n].successors_to_try = p.rest]
        att2 == Append(att1, Attempt(p.successor, <<>>))
    IN [attempts |-> att2, dead_ends |-> de, pc |-> "ok",
        result |-> StatesOf(att1),
        lines |-> TraceOnly(v, <<[line |-> "Going to evaluate successors of", arg |-> p.successor]>>),
        called |-> <<>>,
        popped |-> <<[parent |-> att[n].state, successor |-> p.successor]>>]

\* mutant: the final Attempt is pushed and the loop goes on
FoundFinal_KeepsSearching(att, de, v) ==
    LET n == Len(att)
        p == PopSuccessor(att[n].successors_to_try)
        att1 == [att EXCEPT ![n].successors_to_try = p.rest]
        att2 == Append(att1, Attempt(p.successor, <<>>))
    IN [attempts |-> att2, dead_ends |-> de, pc |-> "loop",
        result |-> <<>>,
        lines |-> TraceOnly(v, <<[line |-> "Going to evaluate successors of", arg |-> p.successor]>>),
        called |-> <<>>,
        popped |-> <<[parent |-> att[n].state, successor |-> p.successor]>>]

\* the branch of the loop body taken when the popped successor is final
FoundFinal(att, de, v) ==
    LET n == Len(att)
        p == PopSuccessor(att[n].successors_to_try)
        att1 == [att EXCEPT ![n].successors_to_try = p.rest]
        att2 == Append(att1, Attempt(p.successor, <<>>))
    IN [attempts |-> att2, dead_ends |-> de, pc |-> "ok",
        result |-> StatesOf(att2),
        lines |-> TraceOnly(v, <<[line |-> "Going to evaluate successors of", arg |-> p.successor]>>),
        called |-> <<>>,
        popped |-> <<[parent |-> att[n].state, successor |-> p.successor]>>]

\* mutant: a successor that is not considered is recorded as a dead end
NotConsidered_MarksDeadEnd(att, de, v) ==
    LET n == Len(att)
        p == PopSuccessor(att[n].successors_to_try)
        att1 == [att EXCEPT ![n].successors_to_try = p.rest]
    IN [attempts |-> att1, dead_ends |-> de \cup {p.successor}, pc |-> "loop",
        result |-> <<>>,
        lines |-> TraceOnly(v, <<[line |-> "Going to evaluate successors of", arg |-> p.successor],
                                 [line |-> "has been tried before", arg |-> p.successor]>>),
        called |-> <<>>,
        popped |-> <<[parent |-> att[n].state, successor |-> p.successor]>>]

\* the branch taken when the popped successor is on the path or a dead end
NotConsidered(att, de, v) ==
    LET n == Len(att)
        p == PopSuccessor(att[n].successors_to_try)
        att1 == [att EXCEPT ![n].successors_to_try = p.rest]
    IN [attempts |-> att1, dead_ends |-> de, pc |-> "loop",
        result |-> <<>>,
        lines |-> TraceOnly(v, <<[line |-> "Going to evaluate successors of", arg |-> p.successor],
                                 [line |-> "has been tried before", arg |-> p.successor]>>),
        called |-> <<>>,
        popped |-> <<[parent |-> att[n].state, successor |-> p.successor]>>]

\* mutant: a state is recorded as a dead end when it is entered
Entered_MarksDeadEnd(att, de, v) ==
    LET n == Len(att)
        p == PopSuccessor(att[n].successors_to_try)
        att1 == [att EXCEPT ![n].successors_to_try = p.rest]
        att2 == Append(att1, Attempt(p.successor, get_possible_successors(p.successor)))
    IN [attempts |-> att2, dead_ends |-> de \cup {p.successor}, pc |-> "loop",
        result |-> <<>>,
        lines |-> TraceOnly(v, <<[line |-> "Going to evaluate successors of", arg |-> p.successor]>>),
        called |-> <<p.successor>>,
        popped |-> <<[parent |-> att[n].state, successor |-> p.successor]>>]

\* the branch taken when the popped successor is entered as a new Attempt
Entered(att, de, v) ==
    LET n == Len(att)
        p == PopSuccessor(att[n].successors_to_try)
        att1 == [att EXCEPT ![n].successors_to_try = p.rest]
        att2 == Append(att1, Attempt(p.successor, get_possible_successors(p.successor)))
    IN [attempts |-> att2, dead_ends |-> de, pc |-> "loop",
        result |-> <<>>,
        lines |-> TraceOnly(v, <<[line |-> "Going to evaluate successors of", arg |-> p.successor]>>),
        called |-> <<p.successor>>,
        popped |-> <<[parent |-> att[n].state, successor |-> p.successor]>>]

\* mutant: the dead end is recorded inside the block that prints it
Backtracked_InsertWhenPrinting(att, de, v) ==
    LET n == Len(att)
        att1 == SubSeq(att, 1, n - 1)
        de1 == IF v # "Quiet" THEN de \cup {att[n].state} ELSE de
    IN [attempts |-> att1, dead_ends |-> de1, pc |-> "loop",
        result |-> <<>>,
        lines |-> UnlessQuiet(v, <<[line |-> "Backtracking from", arg |-> att[n].state]>>)
                  \o TraceOnly(v, <<[line |-> "Known dead ends", arg |-> de1]>>),
        called |-> <<>>,
        popped |-> <<>>]

\* mutant: backtracking also drops the parent Attempt
Backtracked_PopsParent(att, de, v) ==
    LET n == Len(att)
        att1 == SubSeq(att, 1, n - 2)
        de1 == de \cup {att[n].state}
    IN [attempts |-> att1, dead_ends |-> de1, pc |-> "loop",
        result |-> <<>>,
        lines |-> UnlessQuiet(v, <<[line |-> "Backtracking from", arg |-> att[n].state]>>)
                  \o TraceOnly(v, <<[line |-> "Known dead ends", arg |-> de1]>>),
        called |-> <<>>,
        popped |-> <<>>]

\* the branch taken when successors_to_try of the last Attempt is empty.
\* The "Known dead ends" line lists the HashSet in its iteration order, which
\* is unspecified: the line is kept as the set it lists.
\* When attempts.pop() yields nothing the assert!(false) panics.
Backtracked(att, de, v) ==
    IF att = <<>>
    THEN [attempts |-> att, dead_ends |-> de, pc |-> "panic",
          result |-> <<>>, lines |-> <<>>, called |-> <<>>, popped |-> <<>>]
    ELSE
    LET n == Len(att)
        att1 == SubSeq(att, 1, n - 1)
        de1 == de \cup {att[n].state}
    IN [attempts |-> att1, dead_ends |-> de1, pc |-> "loop",
        result |-> <<>>,
        lines |-> UnlessQuiet(v, <<[line |-> "Backtracking from", arg |-> att[n].state]>>)
                  \o TraceOnly(v, <<[line |-> "Known dead ends", arg |-> de1]>>),
        called |-> <<>>,
        popped |-> <<>>]

\* mutant: the loop goes on when attempts is empty
Exhausted_Continues(att, de, v) ==
    [attempts |-> att, dead_ends |-> de, pc |-> "loop",
     result |-> <<>>, lines |-> <<>>, called |-> <<>>, popped |-> <<>>]

\* the branch taken when attempts is empty: return Err(..)
Exhausted(att, de, v) ==
    [attempts |-> att, dead_ends |-> de, pc |-> "err",
     result |-> <<>>, lines |-> <<>>, called |-> <<>>, popped |-> <<>>]

\* mutant: the backtrack branch is taken without a last Attempt
LoopBody_BacktracksWhenEmpty(att, de, v) ==
    LET todo == IF att = <<>> THEN <<>> ELSE att[Len(att)].successors_to_try
    IN IF todo = <<>> THEN Backtracked(att, de, v)
       ELSE LET s == PopSuccessor(todo).successor
                att1 == [att EXCEPT ![Len(att)].successors_to_try = PopSuccessor(todo).rest]
            IN IF is_final(s) THEN FoundFinal(att, de, v)
               ELSE IF TriedBefore(att1, de, s) THEN NotConsidered(att, de, v)
               ELSE Entered(att, de, v)

\* one iteration of the loop of get_sequence_to_final_state
LoopBody(att, de, v) ==
    IF att = <<>> THEN Exhausted(att, de, v)
    ELSE LET todo == att[Len(att)].successors_to_try
         IN IF todo = <<>> THEN Backtracked(att, de, v)
            ELSE LET s == PopSuccessor(todo).successor
                     att1 == [att EXCEPT ![Len(att)].successors_to_try = PopSuccessor(todo).rest]
                 IN IF is_final(s) THEN FoundFinal(att, de, v)
                    ELSE IF TriedBefore(att1, de, s) THEN NotConsidered(att, de, v)
                    ELSE Entered(att, de, v)

\* the state after a loop iteration with outcome r
Apply(r) ==
    /\ attempts' = r.attempts
    /\ dead_ends' = r.dead_ends
    /\ pc' = r.pc
    /\ result' = r.result
    /\ output' = output \o r.lines
    /\ calls' = calls \o r.called
    /\ evaluated' = evaluated \o r.popped
    /\ UNCHANGED <<consumer, edges, finals, initial, verbosity>>
    /\ UNCHANGED boardVars
    /\ UNCHANGED gameVars

\* ----------------------------------------------------- main.rs: the shapes

\* enum Shape
Shapes ==
    {"Free", "Ship", "OneTL", "OneTR", "OneBL", "OneBR", "TwoDiagDown", "TwoDiagUp",
     "TwoHorT", "TwoHorL", "TwoHorB", "TwoHorR",
     "LargeEdgeT", "LargeEdgeL", "LargeEdgeB", "LargeEdgeR",
     "LargeCornerTL", "LargeCornerTR", "LargeCornerBL", "LargeCornerBR"}

\* Shape::rotate, the arms taken when clockwise is true
RotateClockwise(s) ==
    CASE s = "Free" -> "Free"
      [] s = "Ship" -> "Ship"
      [] s = "OneTL" -> "OneTR"
      [] s = "OneTR" -> "OneBR"
      [] s = "OneBL" -> "OneTL"
      [] s = "OneBR" -> "OneBL"
      [] s = "TwoDiagDown" -> "TwoDiagUp"
      [] s = "TwoDiagUp" -> "TwoDiagDown"
      [] s = "TwoHorT" -> "TwoHorR"
      [] s = "TwoHorL" -> "TwoHorT"
      [] s = "TwoHorB" -> "TwoHorL"
      [] s = "TwoHorR" -> "TwoHorB"
      [] s = "LargeEdgeT" -> "LargeEdgeR"
      [] s = "LargeEdgeL" -> "LargeEdgeT"
      [] s = "LargeEdgeB" -> "LargeEdgeL"
      [] s = "LargeEdgeR" -> "LargeEdgeB"
      [] s = "LargeCornerTL" -> "LargeCornerTR"
      [] s = "LargeCornerTR" -> "LargeCornerBR"
      [] s = "LargeCornerBL" -> "LargeCornerTL"
      [] s = "LargeCornerBR" -> "LargeCornerBL"

\* Shape::rotate, the arms taken when clockwise is false
RotateCounterClockwise(s) ==
    CASE s = "Free" -> "Free"
      [] s = "Ship" -> "Ship"
      [] s = "OneTL" -> "OneBL"
      [] s = "OneTR" -> "OneTL"
      [] s = "OneBL" -> "OneBR"
      [] s = "OneBR" -> "OneTR"
      [] s = "TwoDiagDown" -> "TwoDiagUp"
      [] s = "TwoDiagUp" -> "TwoDiagDown"
      [] s = "TwoHorT" -> "TwoHorL"
      [] s = "TwoHorL" -> "TwoHorB"
      [] s = "TwoHorB" -> "TwoHorR"
      [] s = "TwoHorR" -> "TwoHorT"
      [] s = "LargeEdgeT" -> "LargeEdgeL"
      [] s = "LargeEdgeL" -> "LargeEdgeB"
      [] s = "LargeEdgeB" -> "LargeEdgeR"
      [] s = "LargeEdgeR" -> "LargeEdgeT"
      [] s = "LargeCornerTL" -> "LargeCornerBL"
      [] s = "LargeCornerTR" -> "LargeCornerTL"
      [] s = "LargeCornerBL" -> "LargeCornerBR"
      [] s = "LargeCornerBR" -> "LargeCornerTR"

\* mutant: the clockwise flag is not looked at
rotate_AlwaysClockwise(s, clockwise) == RotateClockwise(s)

\* Shape::rotate
rotate(s, clockwise) ==
    IF clockwise THEN RotateClockwise(s) ELSE RotateCounterClockwise(s)

\* struct Point
Point(px, py) == [x |-> px, y |-> py]

\* Shape::get_points
get_points(s) ==
    CASE s = "Free" -> <<>>
      [] s = "Ship" -> <<Point(0, 0), Point(1, 0), Point(0, 1), Point(1, 1),
                         Point(2, 0), Point(-1, 0)>>
      [] s = "OneTL" -> <<Point(0, 0)>>
      [] s = "OneTR" -> <<Point(1, 0)>>
      [] s = "OneBL" -> <<Point(0, 1)>>
      [] s = "OneBR" -> <<Point(1, 1)>>
      [] s = "TwoDiagDown" -> <<Point(0, 0), Point(1, 1)>>
      [] s = "TwoDiagUp" -> <<Point(0, 1), Point(1, 0)>>
      [] s = "TwoHorT" -> <<Point(0, 0), Point(1, 0)>>
      [] s = "TwoHorL" -> <<Point(0, 0), Point(0, 1)>>
      [] s = "TwoHorB" -> <<Point(0, 1), Point(1, 1)>>
      [] s = "TwoHorR" -> <<Point(1, 0), Point(1, 1)>>
      [] s = "LargeEdgeT" -> <<Point(0, -1), Point(1, -1), Point(0, 0), Point(1, 0)>>
      [] s = "LargeEdgeL" -> <<Point(-1, 0), Point(0, 0), Point(-1, 1), Point(0, 1)>>
      [] s = "LargeEdgeB" -> <<Point(0, 1), Point(1, 1), Point(0, 2), Point(1, 2)>>
      [] s = "LargeEdgeR" -> <<Point(1, 0), Point(2, 0), Point(1, 1), Point(2, 1)>>
      [] s = "LargeCornerTL" -> <<Point(-1, -1), Point(0, -1), Point(-1, 0), Point(0, 0)>>
      [] s = "LargeCornerTR" -> <<Point(1, -1), Point(2, -1), Point(1, 0), Point(2, 0)>>
      [] s = "LargeCornerBL" -> <<Point(-1, 1), Point(0, 1), Point(-1, 2), Point(0, 2)>>
      [] s = "LargeCornerBR" -> <<Point(1, 1), Point(2, 1), Point(1, 2), Point(2, 2)>>

\* ------------------------------------------------------ main.rs: the board

\* enum Direction
Directions == {"Up", "Down", "Left", "Right"}

\* Direction::opposite
opposite(d) ==
    CASE d = "Up" -> "Down"
      [] d = "Down" -> "Up"
      [] d = "Left" -> "Right"
      [] d = "Right" -> "Left"

\* struct BoardIndex2d
BoardIndex2d(ix, iy) == [x |-> ix, y |-> iy]

\* BoardIndex2d::to_index
to_index(i) == i.y * 3 + i.x

\* BoardIndex2d::from_index
from_index(index) == BoardIndex2d(index % 3, index \div 3)

\* Option: None is the empty sequence, Some(v) the sequence of v
None == <<>>

Some(v) == <<v>>

\* BoardIndex2d::neighbor
neighbor(i, direction) ==
    LET naive_index ==
            CASE direction = "Up" -> BoardIndex2d(i.x, i.y - 1)
              [] direction = "Down" -> BoardIndex2d(i.x, i.y + 1)
              [] direction = "Left" -> BoardIndex2d(i.x - 1, i.y)
              [] direction = "Right" -> BoardIndex2d(i.x + 1, i.y)
    IN IF naive_index.x < 0 \/ naive_index.x >= 3 \/ naive_index.y < 0 \/ naive_index.y >= 3
       THEN None
       ELSE Some(naive_index)

\* has_duplicates
has_duplicates(vec) == \E i, j \in 1..Len(vec) : i < j /\ vec[i] = vec[j]

\* struct MovingTile
MovingTile(i, dx, dy) == [board_index |-> i, grid_dx |-> dx, grid_dy |-> dy]

\* MovingTile::no_move
no_move == MovingTile(BoardIndex2d(0, 0), 0, 0)

\* mutant: the cells are one grid unit apart
grid_coordinates_of_Narrow(i) == Point(1 + i.x, 1 + i.y)

\* grid_coordinates_of
grid_coordinates_of(i) == Point(1 + 2 * i.x, 1 + 2 * i.y)

\* map_shape_points_to_grid_points
map_shape_points_to_grid_points(s, moving_tile, i) ==
    LET dx == IF i = moving_tile.board_index THEN moving_tile.grid_dx ELSE 0
        dy == IF i = moving_tile.board_index THEN moving_tile.grid_dy ELSE 0
        grid_coordinates == grid_coordinates_of(i)
        points == get_points(s)
    IN [k \in 1..Len(points) |->
            Point(points[k].x + grid_coordinates.x + dx,
                  points[k].y + grid_coordinates.y + dy)]

\* Board::empty_board
empty_board == [i \in 0..8 |-> "Free"]

\* Board::set_shape
set_shape(b, i, s) == [b EXCEPT ![to_index(i)] = s]

RECURSIVE OccupiedPoints(_, _, _)
\* Board::is_collission_free: occupied_points, filled cell by cell (y outer,
\* x inner, which is the order of the cell index) from cell index on
OccupiedPoints(b, moving_tile, index) ==
    IF index >= 9 THEN <<>>
    ELSE map_shape_points_to_grid_points(b[index], moving_tile, from_index(index))
         \o OccupiedPoints(b, moving_tile, index + 1)

\* Board::is_collission_free
is_collission_free(b, moving_tile) ==
    ~has_duplicates(OccupiedPoints(b, moving_tile, 0))

\* Board::find_free_space: the first Free cell; the panic for a board without
\* one is given as None
find_free_space(b) ==
    IF \E i \in 0..8 : b[i] = "Free"
    THEN Some(from_index(CHOOSE i \in 0..8 :
                  b[i] = "Free" /\ \A j \in 0..(i - 1) : b[j] # "Free"))
    ELSE None

\* mutant: only the final position of the moving tile is checked
MoveSteps_FinalOnly(direction) ==
    CASE direction = "Up" -> <<<<0, -2>>>>
      [] direction = "Down" -> <<<<0, 2>>>>
      [] direction = "Left" -> <<<<-2, 0>>>>
      [] direction = "Right" -> <<<<2, 0>>>>

\* Board::move_free_space: the displacements checked for a tile that moves in
\* direction
MoveSteps(direction) ==
    CASE direction = "Up" -> <<<<0, -1>>, <<0, -2>>>>
      [] direction = "Down" -> <<<<0, 1>>, <<0, 2>>>>
      [] direction = "Left" -> <<<<-1, 0>>, <<-2, 0>>>>
      [] direction = "Right" -> <<<<1, 0>>, <<2, 0>>>>

\* mutant: the neighbour is copied into the free space and stays where it is
Swap_Overwrite(b, i, j) == [b EXCEPT ![i] = b[j]]

\* Vec::swap
Swap(b, i, j) == [b EXCEPT ![i] = b[j], ![j] = b[i]]

\* Board::move_free_space, for a board that has a Free cell
move_free_space(b, space_moves_in_direction) ==
    LET free_space_position == find_free_space(b)[1]
        n == neighbor(free_space_position, space_moves_in_direction)
    IN IF n # None
       THEN LET neighbor_position == n[1]
                steps == MoveSteps(opposite(space_moves_in_direction))
                collission_free ==
                    \A k \in 1..Len(steps) :
                        is_collission_free(
                            b, MovingTile(neighbor_position, steps[k][1], steps[k][2]))
            IN IF ~collission_free THEN None
               ELSE Some(Swap(b, to_index(free_space_position), to_index(neighbor_position)))
       ELSE None

\* mutant: the drawing points are taken one column further right
drawing_points_for_Shifted(s) ==
    IF s = "Free"
    THEN <<Point(1, 0), Point(2, 0), Point(1, 1), Point(2, 1)>>
    ELSE [k \in 1..Len(get_points(s)) |-> Point(get_points(s)[k].x + 1, get_points(s)[k].y)]

\* drawing_points_for
drawing_points_for(s) ==
    IF s = "Free"
    THEN <<Point(0, 0), Point(1, 0), Point(0, 1), Point(1, 1)>>
    ELSE get_points(s)

\* Display for Board: the grid points drawn for cell (x, y) of board b
screen_points(b, x, y) ==
    LET pts == drawing_points_for(b[to_index(BoardIndex2d(x, y))])
    IN [k \in 1..Len(pts) |-> Point(pts[k].x + 1 + 2 * x, pts[k].y + 1 + 2 * y)]

\* Display for Board: the screen_buffer indices written for cell (x, y)
screen_indices(b, x, y) ==
    LET pts == screen_points(b, x, y)
    IN [k \in 1..Len(pts) |-> pts[k].x + 8 * pts[k].y]

\* Display for Board: vec![" "; 8 * 8]
ScreenBufferLen == 8 * 8

\* no Board operation yet
NoOp == [name |-> "none"]

\* ------------------------------------------- main.rs: the game and the editor

\* Board::is_valid
is_valid(b) ==
    LET free_count == Cardinality({i \in 0..8 : b[i] = "Free"})
    IN free_count = 1 /\ is_collission_free(b, no_move)

\* Board::is_won
is_won(b) ==
    LET in_front_of_exit == BoardIndex2d(1, 2)
    IN IF b[to_index(in_front_of_exit)] # "Ship" THEN FALSE
       ELSE is_collission_free(b, MovingTile(in_front_of_exit, 0, 1))

\* the % of i32: the remainder has the sign of the dividend
Rem(a, b) == IF a >= 0 THEN a % b ELSE -((-a) % b)

\* mutant: the remainder as % gives it
positive_modulo_Plain(value, modulo) == Rem(value, modulo)

\* positive_modulo
positive_modulo(value, modulo) == Rem(Rem(value, modulo) + modulo, modulo)

\* make_board_via_tui: the initial shapes_to_place
ShapesToPlace ==
    <<"OneTL", "TwoDiagUp", "TwoHorT", "OneTL", "LargeEdgeT", "LargeCornerTL",
      "OneTL", "Ship", "Free">>

RECURSIVE Rotated(_, _)
\* for _ in 0..n { shape = shape.rotate(true); }
Rotated(s, n) == IF n <= 0 THEN s ELSE Rotated(rotate(s, TRUE), n - 1)

\* mutant: the last element is removed instead
Remove_Last(vec, index) == SubSeq(vec, 1, Len(vec) - 1)

\* Vec::remove(index), index counted from 0
Remove(vec, index) == SubSeq(vec, 1, index) \o SubSeq(vec, index + 2, Len(vec))

\* the key codes make_board_via_tui and play_game_via_tui tell apart
KeyCodes == {"Up", "Down", "Left", "Right", "Enter", "q", "other"}

\* the local variables of make_board_via_tui
Locals(b, stp, bi, idx, rot, st) ==
    [board |-> b, shapes_to_place |-> stp, board_index |-> bi,
     shape_to_allocate_index |-> idx, clockwise_rotations |-> rot, stage |-> st]

\* the assertions and the index checks at the top of the loop of
\* make_board_via_tui
LoopTopHolds(l) ==
    /\ l.board_index < 9
    /\ Len(l.shapes_to_place) > 0
    /\ l.shape_to_allocate_index >= 0
    /\ l.shape_to_allocate_index < Len(l.shapes_to_place)
    /\ l.clockwise_rotations >= 0
    /\ l.clockwise_rotations < 4

\* the board after the top of the loop: the selected shape, rotated, is set
\* into the cell being filled
Placed(l) ==
    set_shape(l.board, from_index(l.board_index),
              Rotated(l.shapes_to_place[l.shape_to_allocate_index + 1],
                      l.clockwise_rotations))

\* the match on the key code in make_board_via_tui, l.board being the board
\* after the top of the loop
KeyArm(l, code) ==
    CASE code = "Down" ->
           [l EXCEPT !.shape_to_allocate_index =
               IF l.shape_to_allocate_index + 1 >= Len(l.shapes_to_place)
               THEN 0 ELSE l.shape_to_allocate_index + 1]
      [] code = "Up" ->
           [l EXCEPT !.shape_to_allocate_index =
               IF l.shape_to_allocate_index = 0
               THEN Len(l.shapes_to_place) - 1 ELSE l.shape_to_allocate_index - 1]
      [] code = "Left" ->
           [l EXCEPT !.clockwise_rotations = positive_modulo(l.clockwise_rotations - 1, 4)]
      [] code = "Right" ->
           [l EXCEPT !.clockwise_rotations = positive_modulo(l.clockwise_rotations + 1, 4)]
      [] code = "Enter" ->
           IF ~is_collission_free(l.board, no_move) THEN l
           ELSE [l EXCEPT !.clockwise_rotations = 0,
                          !.shapes_to_place = Remove(l.shapes_to_place, l.shape_to_allocate_index),
                          !.shape_to_allocate_index = 0,
                          !.board_index = l.board_index + 1,
                          !.stage = IF l.board_index + 1 >= 9 THEN "made" ELSE "edit"]
      [] code = "q" -> [l EXCEPT !.stage = "aborted"]
      [] OTHER -> l

\* one iteration of the loop of make_board_via_tui that reads the key code
EditStep(l, code) ==
    IF ~LoopTopHolds(l) THEN [l EXCEPT !.stage = "panic"]
    ELSE KeyArm([l EXCEPT !.board = Placed(l)], code)

\* main has not been started
GameIdle ==
    /\ shapes_to_place = <<>>
    /\ board_index = 0
    /\ shape_to_allocate_index = 0
    /\ clockwise_rotations = 0
    /\ keys = 0
    /\ stage = "none"
    /\ history = <<>>

\* ------------------------------------------------------------- the machine

Init ==
    /\ \/ /\ consumer = "Counter"
          /\ initial = CounterStart
          /\ edges = NoEdges
          /\ finals = {}
       \/ /\ consumer = "JumpingCounter"
          /\ initial \in 0..MaxStart
          /\ edges = NoEdges
          /\ finals = {}
       \/ /\ consumer = "Table"
          /\ initial \in Nodes
          /\ edges \in Tables
          /\ finals \in SUBSET Nodes
    /\ verbosity \in Verbosity
    /\ attempts = <<>>
    /\ dead_ends = {}
    /\ pc = "start"
    /\ result = <<>>
    /\ output = <<>>
    /\ calls = <<>>
    /\ evaluated = <<>>
    /\ shape = "Free"
    /\ rotations = <<>>
    /\ board = empty_board
    /\ op = NoOp
    /\ GameIdle

\* the construction of attempts and dead_ends before the loop
Start ==
    /\ pc = "start"
    /\ attempts' = InitialAttempts(initial)
    /\ calls' = <<initial>>
    /\ dead_ends' = {}
    /\ pc' = "loop"
    /\ UNCHANGED <<consumer, edges, finals, initial, verbosity, result, output, evaluated>>
    /\ UNCHANGED boardVars
    /\ UNCHANGED gameVars

\* a loop iteration that pops a final successor and returns Ok
ReturnOk ==
    /\ pc = "loop"
    /\ attempts # <<>>
    /\ attempts[Len(attempts)].successors_to_try # <<>>
    /\ LoopBody(attempts, dead_ends, verbosity).pc = "ok"
    /\ Apply(LoopBody(attempts, dead_ends, verbosity))

\* a loop iteration that pops a successor and does not consider it
Discard ==
    /\ pc = "loop"
    /\ attempts # <<>>
    /\ attempts[Len(attempts)].successors_to_try # <<>>
    /\ LET r == LoopBody(attempts, dead_ends, verbosity)
       IN /\ r.pc = "loop"
          /\ Len(r.attempts) = Len(attempts)
          /\ Apply(r)

\* a loop iteration that pops a successor and pushes an Attempt for it
Push ==
    /\ pc = "loop"
    /\ attempts # <<>>
    /\ attempts[Len(attempts)].successors_to_try # <<>>
    /\ LET r == LoopBody(attempts, dead_ends, verbosity)
       IN /\ r.pc = "loop"
          /\ Len(r.attempts) = Len(attempts) + 1
          /\ Apply(r)

\* a loop iteration that finds no successor left and backtracks
Backtrack ==
    /\ pc = "loop"
    /\ attempts # <<>>
    /\ attempts[Len(attempts)].successors_to_try = <<>>
    /\ Apply(LoopBody(attempts, dead_ends, verbosity))

\* the loop iteration that finds attempts empty and returns Err
ReturnErr ==
    /\ pc = "loop"
    /\ attempts = <<>>
    /\ Apply(LoopBody(attempts, dead_ends, verbosity))

Next == Start \/ ReturnOk \/ Discard \/ Push \/ Backtrack \/ ReturnErr

Spec == Init /\ [][Next]_vars

\* the loop runs until it returns: there is nothing else to schedule
LiveSpec == Spec /\ WF_vars(Next)

\* --------------------------------------------- the machine of the board

\* the displacements is_collission_free is asked about
Shifts ==
    {<<0, 0>>} \cup UNION {{<<k, 0>>, <<-k, 0>>, <<0, k>>, <<0, -k>>} : k \in 1..MaxShift}

\* the MovingTile arguments is_collission_free is asked about on board b: no
\* move, and every displacement of a cell that holds a tile
MovingTiles(b) ==
    {no_move} \cup
    {MovingTile(from_index(i), d[1], d[2]) : i \in {c \in 0..8 : b[c] # "Free"}, d \in Shifts}

\* the boards the operations are applied to: the empty board with up to two
\* cells set by set_shape
Boards ==
    {set_shape(set_shape(empty_board, from_index(i), s), from_index(j), t) :
        i \in 0..8, j \in 0..8, s \in Shapes, t \in Shapes}

\* the engine is not running
EngineIdle ==
    /\ consumer = "None"
    /\ edges = NoEdges
    /\ finals = {}
    /\ initial = 0
    /\ verbosity = "Quiet"
    /\ attempts = <<>>
    /\ dead_ends = {}
    /\ pc = "idle"
    /\ result = <<>>
    /\ output = <<>>
    /\ calls = <<>>
    /\ evaluated = <<>>

BoardInit ==
    /\ EngineIdle
    /\ \/ shape \in Shapes /\ board = empty_board
       \/ shape = "Free" /\ board \in Boards
    /\ rotations = <<>>
    /\ op = NoOp
    /\ GameIdle

\* shape = shape.rotate(clockwise)
Rotate ==
    /\ op = NoOp
    /\ board = empty_board
    /\ Len(rotations) < MaxRotations
    /\ \E clockwise \in BOOLEAN :
           /\ shape' = rotate(shape, clockwise)
           /\ rotations' = Append(rotations,
                  [from |-> shape, clockwise |-> clockwise, to |-> rotate(shape, clockwise)])
    /\ UNCHANGED <<board, op>>
    /\ UNCHANGED engineVars
    /\ UNCHANGED gameVars

\* board.move_free_space(direction); a returned board replaces the board
MoveFreeSpace ==
    /\ rotations = <<>>
    /\ op.name # "is_collission_free"
    /\ find_free_space(board) # None
    /\ \E direction \in Directions :
           LET moved == move_free_space(board, direction)
           IN /\ board' = IF moved = None THEN board ELSE moved[1]
              /\ op' = [name |-> "move_free_space", direction |-> direction,
                        some |-> moved # None]
    /\ UNCHANGED <<shape, rotations>>
    /\ UNCHANGED engineVars
    /\ UNCHANGED gameVars

\* board.is_collission_free(moving_tile)
CheckCollission ==
    /\ rotations = <<>>
    /\ op = NoOp
    /\ \E moving_tile \in MovingTiles(board) :
           op' = [name |-> "is_collission_free", moving_tile |-> moving_tile,
                  free |-> is_collission_free(board, moving_tile)]
    /\ UNCHANGED <<shape, rotations, board>>
    /\ UNCHANGED engineVars
    /\ UNCHANGED gameVars

BoardNext == Rotate \/ MoveFreeSpace \/ CheckCollission

BoardSpec == BoardInit /\ [][BoardNext]_vars

\* ------------------------------------------------- the machine of the game

\* main: make_board_via_tui is entered, its locals are constructed
GameInit ==
    /\ EngineIdle
    /\ shape = "Free"
    /\ rotations = <<>>
    /\ board = empty_board
    /\ op = NoOp
    /\ shapes_to_place = ShapesToPlace
    /\ board_index = 0
    /\ shape_to_allocate_index = 0
    /\ clockwise_rotations = 0
    /\ keys = 0
    /\ stage = "edit"
    /\ history = <<>>

\* one iteration of the loop of make_board_via_tui in which code is read
Edit(code) ==
    /\ stage = "edit"
    /\ LET r == EditStep(Locals(board, shapes_to_place, board_index,
                                shape_to_allocate_index, clockwise_rotations, stage), code)
       IN /\ board' = r.board
          /\ shapes_to_place' = r.shapes_to_place
          /\ board_index' = r.board_index
          /\ shape_to_allocate_index' = r.shape_to_allocate_index
          /\ clockwise_rotations' = r.clockwise_rotations
          /\ stage' = r.stage
    /\ op' = [name |-> "key", code |-> code]
    /\ keys' = IF code \in Directions THEN keys + 1 ELSE keys
    /\ UNCHANGED <<shape, rotations, history>>
    /\ UNCHANGED engineVars

KeyDown == keys < MaxKeys /\ Edit("Down")

KeyUp == keys < MaxKeys /\ Edit("Up")

KeyLeft == keys < MaxKeys /\ Edit("Left")

KeyRight == keys < MaxKeys /\ Edit("Right")

KeyEnter == stage = "edit" /\ Edit("Enter")

KeyQuit == stage = "edit" /\ Edit("q")

KeyOther == stage = "edit" /\ Edit("other")

\* main: the board is returned and play_game_via_tui is entered with it
StartPlay ==
    /\ stage = "made"
    /\ stage' = IF ~is_valid(board) THEN "panic_invalid"
                ELSE IF is_won(board) THEN "panic_won"
                ELSE "play"
    /\ history' = IF is_valid(board) /\ ~is_won(board) THEN <<board>> ELSE <<>>
    /\ UNCHANGED <<shape, rotations, board, op, shapes_to_place, board_index,
                   shape_to_allocate_index, clockwise_rotations, keys>>
    /\ UNCHANGED engineVars

\* play_game_via_tui: an arrow key is read
PlayMove ==
    /\ stage = "play"
    /\ Len(history) <= MaxMoves
    /\ \E direction \in Directions :
           LET moved == move_free_space(history[Len(history)], direction)
           IN /\ history' = IF moved = None THEN history ELSE Append(history, moved[1])
              /\ op' = [name |-> "key", code |-> direction, some |-> moved # None]
    /\ UNCHANGED <<shape, rotations, board, shapes_to_place, board_index,
                   shape_to_allocate_index, clockwise_rotations, keys, stage>>
    /\ UNCHANGED engineVars

\* play_game_via_tui: q is read and the loop is left
PlayQuit ==
    /\ stage = "play"
    /\ stage' = "done"
    /\ op' = [name |-> "key", code |-> "q"]
    /\ UNCHANGED <<shape, rotations, board, shapes_to_place, board_index,
                   shape_to_allocate_index, clockwise_rotations, keys, history>>
    /\ UNCHANGED engineVars

\* play_game_via_tui: another key is read
PlayOther ==
    /\ stage = "play"
    /\ op' = [name |-> "key", code |-> "other"]
    /\ UNCHANGED <<shape, rotations, board, shapes_to_place, board_index,
                   shape_to_allocate_index, clockwise_rotations, keys, stage, history>>
    /\ UNCHANGED engineVars

GameNext ==
    \/ KeyDown \/ KeyUp \/ KeyLeft \/ KeyRight \/ KeyEnter \/ KeyQuit \/ KeyOther
    \/ StartPlay \/ PlayMove \/ PlayQuit \/ PlayOther

GameSpec == GameInit /\ [][GameNext]_vars

\* ------------------------------------------------------ reachability helpers

Done == pc \in {"ok", "err"}

Reverse(q) == [i \in 1..Len(q) |-> q[Len(q) + 1 - i]]

NoDuplicates(q) == \A i, j \in 1..Len(q) : i # j => q[i] # q[j]

RECURSIVE Closure(_)
\* the states reachable from S through get_possible_successors, final states
\* not expanded (a final state is reachable iff it is in this set)
Closure(S) ==
    LET T == S \cup UNION {Range(get_possible_successors(s)) : s \in {x \in S : ~is_final(x)}}
    IN IF T = S THEN S ELSE Closure(T)

FinalReachable == \E s \in Closure({initial}) : is_final(s)

\* the successors evaluated so far for the Attempt of state s, in order
EvalsOf(s) ==
    LET mine == SelectSeq(evaluated, LAMBDA e : e.parent = s)
    IN [i \in 1..Len(mine) |-> mine[i].successor]

\* ------------------------------------------------------------------ claims

\* C1: whenever the call returns Ok, the returned sequence starts with the
\* initial state, ends with a state satisfying is_final, and each element
\* after the first is a member of get_possible_successors of the one before.
C1_PathIsValid ==
    pc = "ok" =>
        /\ Len(result) >= 1
        /\ result[1] = initial
        /\ is_final(result[Len(result)])
        /\ \A i \in 2..Len(result) :
               result[i] \in Range(get_possible_successors(result[i - 1]))

\* a returned path of at least three states, found after a backtrack
C1_Witness == pc = "ok" /\ Len(result) >= 3 /\ dead_ends # {}

\* C2 (as claimed): no state appears twice in a returned path.
C2_NoStateTwice == pc = "ok" => NoDuplicates(result)

\* C3 (as claimed): when the initial state is final, get_possible_successors is
\* invoked on no state and the call returns the single-element path [initial].
C3_InitialFinal ==
    (pc # "start" /\ is_final(initial)) =>
        /\ calls = <<>>
        /\ Done => (pc = "ok" /\ result = <<initial>>)

\* C4 (as claimed): Err is returned only when no final state is reachable from
\* the initial state, the initial state included.
C4_ErrOnlyIfNoFinal == pc = "err" => ~FinalReachable

\* C5: the call eventually returns, and JumpingCounter started above its
\* target returns Err.
C5_Terminates ==
    /\ <>Done
    /\ (consumer = "JumpingCounter" /\ initial > JumpingTarget) => <>(pc = "err")

\* JumpingCounter started above 4 has returned Err after backtracking
C5_Witness ==
    /\ consumer = "JumpingCounter"
    /\ initial > JumpingTarget
    /\ pc = "err"
    /\ Cardinality(dead_ends) >= 3

\* C6: get_possible_successors is invoked at most once on any state, the
\* invocation on the initial state included.
C6_CalledOnce == NoDuplicates(calls)

\* a state that is not final came up as a candidate twice
C6_Witness ==
    \E i, j \in 1..Len(evaluated) :
        /\ i < j
        /\ evaluated[i].successor = evaluated[j].successor
        /\ ~is_final(evaluated[i].successor)
        /\ evaluated[i].successor \in Range(calls)

\* C7: candidates are taken from the end of successors_to_try: what is left of
\* an Attempt's list is a prefix of its state's successors, the candidates
\* evaluated for it are the rest in reverse order, and while an Attempt is not
\* the last one the Attempt above it holds the candidate evaluated last, the
\* earlier entries still waiting; a dead end had all its successors evaluated,
\* last first.
C7_LastFirst ==
    /\ \A i \in 1..Len(attempts) :
           (pc = "ok" /\ i = Len(attempts)) \/
           LET s == attempts[i].state
               all == get_possible_successors(s)
               k == Len(attempts[i].successors_to_try)
           IN /\ k <= Len(all)
              /\ attempts[i].successors_to_try = SubSeq(all, 1, k)
              /\ EvalsOf(s) = Reverse(SubSeq(all, k + 1, Len(all)))
              /\ i < Len(attempts) =>
                     /\ k < Len(all)
                     /\ attempts[i + 1].state = all[k + 1]
    /\ \A d \in dead_ends : EvalsOf(d) = Reverse(get_possible_successors(d))

\* a state with two different successors [A, B] returned through B with A
\* still waiting
C7_Witness ==
    /\ pc = "ok"
    /\ \E i \in 1..(Len(attempts) - 1) :
           LET all == get_possible_successors(attempts[i].state)
           IN /\ Len(all) = 2
              /\ all[1] # all[2]
              /\ attempts[i].successors_to_try = <<all[1]>>
              /\ attempts[i + 1].state = all[2]
              /\ Len(attempts) > i + 1

RECURSIVE Run(_, _, _)
\* the outcome of running the loop from (att, de) with verbosity v
Run(att, de, v) ==
    LET r == LoopBody(att, de, v)
    IN IF r.pc = "loop" THEN Run(r.attempts, r.dead_ends, v)
       ELSE [pc |-> r.pc, result |-> r.result]

\* C8: the verbosity changes only what is printed: from the current stack and
\* dead-end set a loop iteration leads to the same stack, dead-end set, outcome
\* and get_possible_successors calls under every verbosity, and a call that has
\* returned has the result the other verbosities give.
C8_VerbosityIrrelevant ==
    /\ pc = "loop" =>
           \A w \in Verbosity :
               LET a == LoopBody(attempts, dead_ends, verbosity)
                   b == LoopBody(attempts, dead_ends, w)
               IN /\ a.attempts = b.attempts
                  /\ a.dead_ends = b.dead_ends
                  /\ a.pc = b.pc
                  /\ a.result = b.result
                  /\ a.called = b.called
                  /\ a.popped = b.popped
    /\ Done =>
           \A w \in Verbosity :
               Run(InitialAttempts(initial), {}, w) = [pc |-> pc, result |-> result]

\* a Trace run that printed, backtracked and returned a path
C8_Witness ==
    /\ verbosity = "Trace"
    /\ pc = "ok"
    /\ dead_ends # {}
    /\ Len(output) > Len(evaluated)

\* every state reachable from the initial state is not final and has a
\* successor: all successors lead back to states seen before
OnlyCycles ==
    /\ consumer = "Table"
    /\ \A s \in Closure({initial}) : ~is_final(s) /\ get_possible_successors(s) # <<>>

\* C9: when the successors of a non-final state only lead back to itself or to
\* states already on the path, no state is entered twice and the call returns
\* Err.
C9_CycleExhausted ==
    /\ [](OnlyCycles => (NoDuplicates(StatesOf(attempts)) /\ pc # "ok"))
    /\ OnlyCycles => <>(pc = "err")

\* a state whose successors are [itself] was rejected and the call returned Err
C9_Witness ==
    /\ OnlyCycles
    /\ get_possible_successors(initial) = <<initial>>
    /\ pc = "err"
    /\ evaluated = <<[parent |-> initial, successor |-> initial]>>

\* C10: Counter started at 1 returns exactly the path [1,2,3,4,5,6,7].
C10_CounterPath ==
    (consumer = "Counter" /\ initial = 1) =>
        /\ pc # "err"
        /\ pc = "ok" => result = <<1, 2, 3, 4, 5, 6, 7>>

\* the Counter call has returned
C10_Witness == consumer = "Counter" /\ initial = 1 /\ pc = "ok"

\* the position in evaluated of the candidate c popped for the Attempt of p,
\* 0 when it was not popped
EvaluatedAt(p, c) ==
    IF \E i \in 1..Len(evaluated) : evaluated[i] = [parent |-> p, successor |-> c]
    THEN CHOOSE i \in 1..Len(evaluated) : evaluated[i] = [parent |-> p, successor |-> c]
    ELSE 0

\* C11: JumpingCounter started at 1 does not return Err, the path it returns
\* leads from 1 to 4 by steps of +1 or +2, and for every state n entered the
\* candidate n+1 is evaluated only after the candidate n+2.
C11_JumpingPath ==
    (consumer = "JumpingCounter" /\ initial = 1) =>
        /\ pc # "err"
        /\ pc = "ok" =>
               /\ result[1] = 1
               /\ result[Len(result)] = JumpingTarget
               /\ \A i \in 2..Len(result) : result[i] - result[i - 1] \in {1, 2}
        /\ \A n \in Range(calls) :
               EvaluatedAt(n, n + 1) # 0 =>
                   /\ EvaluatedAt(n, n + 2) # 0
                   /\ EvaluatedAt(n, n + 2) < EvaluatedAt(n, n + 1)

\* JumpingCounter started at 1 has returned after evaluating both candidates
\* of a state
C11_Witness ==
    /\ consumer = "JumpingCounter"
    /\ initial = 1
    /\ pc = "ok"
    /\ \E n \in Range(calls) : EvaluatedAt(n, n + 1) # 0

\* C12: a state in the dead-end set is never pushed as an Attempt again, and
\* get_possible_successors is not invoked on it again.
C12_DeadEndsNotRetried ==
    [][\A d \in dead_ends :
           /\ Len(attempts') > Len(attempts) => attempts'[Len(attempts')].state # d
           /\ Len(calls') > Len(calls) => calls'[Len(calls')] # d]_vars

\* a state came up as a candidate again after it had become a dead end, and
\* was discarded
C12_Witness ==
    /\ evaluated # <<>>
    /\ attempts # <<>>
    /\ LET last == evaluated[Len(evaluated)]
       IN /\ last.successor \in dead_ends
          /\ ~is_final(last.successor)
          /\ attempts[Len(attempts)].state = last.parent
          /\ \E i \in 1..(Len(evaluated) - 1) :
                 /\ evaluated[i].successor = last.successor
                 /\ evaluated[i].parent # last.parent

\* C13 (as claimed): no final state is reachable through successors from a
\* state in the dead-end set.
C13_DeadEndsSound ==
    \A d \in dead_ends :
        \A s \in Closure(Range(get_possible_successors(d))) : ~is_final(s)

RECURSIVE ClosureOffPath(_)
\* the states reachable from S through get_possible_successors without going
\* on from a final state or from a state on the stack
ClosureOffPath(S) ==
    LET open == {x \in S : ~is_final(x) /\ x \notin Range(StatesOf(attempts))}
        T == S \cup UNION {Range(get_possible_successors(s)) : s \in open}
    IN IF T = S THEN S ELSE ClosureOffPath(T)

\* C13 (amended): from a state in the dead-end set a final state is reachable
\* through successors only by way of a state that is on the stack.
C13_DeadEndsSoundOffPath ==
    \A d \in dead_ends :
        \A s \in ClosureOffPath(Range(get_possible_successors(d))) : ~is_final(s)

\* a dead end from which a final state is reachable by way of the stack
C13_Witness ==
    \E d \in dead_ends :
        /\ \E s \in Closure(Range(get_possible_successors(d))) : is_final(s)
        /\ \E s \in ClosureOffPath(Range(get_possible_successors(d))) :
               s \in Range(StatesOf(attempts))

\* C14: the assert!(false) of the backtrack branch is never reached, and the
\* stack is empty during the loop only in the iteration that returns Err.
C14_AssertUnreachable ==
    /\ pc # "panic"
    /\ (pc = "loop" /\ attempts = <<>>) =>
           LoopBody(attempts, dead_ends, verbosity).pc = "err"
    /\ pc = "ok" => attempts # <<>>

\* the last Attempt was popped and the loop is about to return Err
C14_Witness ==
    /\ pc = "loop"
    /\ attempts = <<>>
    /\ Cardinality(dead_ends) >= 2

\* C15: the call returns in the step that pops the first final candidate: a
\* final candidate is the last one popped, its path is the result, and after
\* the return nothing changes.
C15_FirstFinalWins ==
    /\ [](\A i \in 1..Len(evaluated) :
              is_final(evaluated[i].successor) =>
                  /\ i = Len(evaluated)
                  /\ pc = "ok"
                  /\ result = StatesOf(attempts)
                  /\ result[Len(result)] = evaluated[i].successor)
    /\ [][pc # "ok"]_vars

\* the call has returned with candidates left untried
C15_Witness ==
    /\ pc = "ok"
    /\ \E i \in 1..Len(attempts) : attempts[i].successors_to_try # <<>>
    /\ dead_ends # {}

\* C19: the dead-end set is empty when the call starts, no step removes a
\* state from it, and a step that adds one is a backtrack step: it adds the
\* state of the last Attempt, whose list was empty, and pops that Attempt.
C19_DeadEndsGrow ==
    /\ [](pc = "start" => dead_ends = {})
    /\ [][/\ dead_ends \subseteq dead_ends'
          /\ dead_ends' # dead_ends =>
                 /\ attempts # <<>>
                 /\ attempts[Len(attempts)].successors_to_try = <<>>
                 /\ dead_ends' = dead_ends \cup {attempts[Len(attempts)].state}
                 /\ attempts' = SubSeq(attempts, 1, Len(attempts) - 1)]_vars

\* the search goes on after a second state was added to the dead-end set
C19_Witness ==
    /\ pc = "loop"
    /\ Cardinality(dead_ends) >= 2
    /\ attempts # <<>>
    /\ Len(evaluated) >= 3

\* C20: no state held by an Attempt on the stack is in the dead-end set, the
\* final state pushed before an Ok return included.
C20_PathAndDeadEndsDisjoint ==
    Range(StatesOf(attempts)) \cap dead_ends = {}

\* an Ok return from a stack of three Attempts with dead ends recorded
C20_Witness ==
    /\ pc = "ok"
    /\ Len(attempts) >= 3
    /\ dead_ends # {}

\* C16: rotating a shape clockwise and then counter-clockwise gives the shape
\* back, for the shape at hand and for every two rotate calls made that way.
C16_RotateThereAndBack ==
    /\ rotate(rotate(shape, TRUE), FALSE) = shape
    /\ \A i \in 1..(Len(rotations) - 1) :
           (rotations[i].clockwise /\ ~rotations[i + 1].clockwise) =>
               rotations[i + 1].to = rotations[i].from

\* a shape was turned clockwise into another one and then turned back
C16_Witness ==
    /\ Len(rotations) = 2
    /\ rotations[1].clockwise
    /\ ~rotations[2].clockwise
    /\ rotations[1].to # rotations[1].from
    /\ shape = rotations[1].from

\* the grid points of the tile in cell index of board b, the tile of
\* moving_tile displaced: (1 + 2x, 1 + 2y) of the cell plus the shape's points
TileGridPoints(b, moving_tile, index) ==
    LET cx == index % 3
        cy == index \div 3
        moves == moving_tile.board_index = [x |-> cx, y |-> cy]
        dx == IF moves THEN moving_tile.grid_dx ELSE 0
        dy == IF moves THEN moving_tile.grid_dy ELSE 0
    IN {[x |-> pt.x + 1 + 2 * cx + dx, y |-> pt.y + 1 + 2 * cy + dy] :
            pt \in Range(get_points(b[index]))}

\* some grid point is occupied by more than one tile
SharedGridPoint(b, moving_tile) ==
    \E i, j \in 0..8 :
        /\ i < j
        /\ TileGridPoints(b, moving_tile, i) \cap TileGridPoints(b, moving_tile, j) # {}

\* the displacement by k grid units of a tile that moves against direction d
Towards(d, k) ==
    CASE d = "Up" -> <<0, k>>
      [] d = "Down" -> <<0, -k>>
      [] d = "Left" -> <<k, 0>>
      [] d = "Right" -> <<-k, 0>>

\* the first Free cell of b
FirstFree(b) == CHOOSE i \in 0..8 : b[i] = "Free" /\ \A j \in 0..(i - 1) : b[j] # "Free"

\* the cell next to cell index in direction d, -1 when it is off the board
NextCell(index, d) ==
    LET cx == index % 3
        cy == index \div 3
    IN CASE d = "Up" -> IF cy > 0 THEN index - 3 ELSE -1
         [] d = "Down" -> IF cy < 2 THEN index + 3 ELSE -1
         [] d = "Left" -> IF cx > 0 THEN index - 1 ELSE -1
         [] d = "Right" -> IF cx < 2 THEN index + 1 ELSE -1

\* the free space of b has a neighbour in direction d, and that tile, moved by
\* one and by two grid units towards the free space, shares no grid point with
\* another tile
CanSlide(b, d) ==
    LET n == NextCell(FirstFree(b), d)
    IN /\ n # -1
       /\ \A k \in {1, 2} :
              LET mt == MovingTile(from_index(n), Towards(d, k)[1], Towards(d, k)[2])
              IN \A j \in 0..8 \ {n} :
                     TileGridPoints(b, mt, n) \cap TileGridPoints(b, mt, j) = {}

\* the free space of b has a neighbour in direction d, and with that tile moved
\* by one and by two grid units towards the free space no two tiles of the
\* board share a grid point
CanSlideOnCleanBoard(b, d) ==
    LET n == NextCell(FirstFree(b), d)
    IN /\ n # -1
       /\ \A k \in {1, 2} :
              ~SharedGridPoint(b, MovingTile(from_index(n), Towards(d, k)[1], Towards(d, k)[2]))

\* the board after a move: b with the free space and its neighbour swapped
Swapped(b, d) ==
    LET f == FirstFree(b)
        n == NextCell(f, d)
    IN [i \in 0..8 |-> IF i = f THEN b[n] ELSE IF i = n THEN b[f] ELSE b[i]]

TwoShips(i, j) == [c \in 0..8 |-> IF c \in {i, j} THEN "Ship" ELSE "Free"]

\* C18: is_collission_free(moving_tile) is true exactly when no grid point is
\* occupied by more than one tile, the tile of moving_tile displaced; two
\* Ships in horizontally adjacent cells collide; a Ship in cell 1 sliding down
\* towards a Ship in cell 6 is free for 0, 1 and 2 and collides at 3.
C18_CollissionFree ==
    /\ op.name = "is_collission_free" =>
           (op.free <=> ~SharedGridPoint(board, op.moving_tile))
    /\ \A i \in {0, 1, 3, 4, 6, 7} :
           (board[i] = "Ship" /\ board[i + 1] = "Ship") =>
               ~is_collission_free(board, no_move)
    /\ board = TwoShips(1, 6) =>
           /\ \A k \in 0..2 : is_collission_free(board, MovingTile(from_index(1), 0, k))
           /\ ~is_collission_free(board, MovingTile(from_index(1), 0, 3))

\* the Ship in cell 1 was found to collide with the Ship in cell 6 at 3
C18_Witness ==
    /\ board = TwoShips(1, 6)
    /\ op.name = "is_collission_free"
    /\ op.moving_tile = MovingTile(from_index(1), 0, 3)
    /\ ~op.free

\* q is p cut off after some number of elements
IsPrefix(q, p) == Len(q) <= Len(p) /\ q = SubSeq(p, 1, Len(q))

\* C21: the Attempts stack is a path from the initial state: the bottom
\* Attempt holds the initial state, every Attempt above holds a successor of
\* the state directly below it, and every pending list is a prefix of the
\* successors of its own state.
C21_StackIsPath ==
    pc # "start" =>
        /\ attempts # <<>> => attempts[1].state = initial
        /\ \A i \in 2..Len(attempts) :
               attempts[i].state \in Range(get_possible_successors(attempts[i - 1].state))
        /\ \A i \in 1..Len(attempts) :
               IsPrefix(attempts[i].successors_to_try,
                        get_possible_successors(attempts[i].state))

\* a stack of three Attempts, one of them with some but not all of its
\* successors still pending
C21_Witness ==
    /\ pc = "loop"
    /\ Len(attempts) >= 3
    /\ \E i \in 1..Len(attempts) :
           /\ attempts[i].successors_to_try # <<>>
           /\ Len(attempts[i].successors_to_try)
                  < Len(get_possible_successors(attempts[i].state))

\* C22: an Attempt leaves the stack only as the top Attempt with an empty
\* pending list, in a step that inserts its state into the dead-end set; the
\* Attempts below the top are never modified, and the top one keeps its state.
C22_PoppedOnlyWhenExhausted ==
    [][pc = "loop" =>
           LET n == Len(attempts)
           IN /\ \A i \in 1..(n - 1) :
                     i <= Len(attempts') /\ attempts'[i] = attempts[i]
              /\ Len(attempts') < n =>
                     /\ Len(attempts') = n - 1
                     /\ attempts[n].successors_to_try = <<>>
                     /\ dead_ends' = dead_ends \cup {attempts[n].state}
              /\ (n > 0 /\ Len(attempts') >= n) =>
                     /\ attempts'[n].state = attempts[n].state
                     /\ dead_ends' = dead_ends]_vars

\* an Attempt was popped above a parent that is still on the stack
C22_Witness ==
    /\ pc = "loop"
    /\ dead_ends # {}
    /\ attempts # <<>>
    /\ attempts[Len(attempts)].successors_to_try # <<>>

\* the lines of output that read kind, in order
LinesOf(kind) == SelectSeq(output, LAMBDA l : l.line = kind)

\* C23: with Quiet nothing is printed; with Info and with Trace there is one
\* "Backtracking from" line per backtrack step, that is per dead end, and with
\* Info nothing else; with Trace there is one line per candidate evaluated,
\* naming it, and after every "Backtracking from" line the dead-end set.
C23_OutputGated ==
    /\ verbosity = "Quiet" => output = <<>>
    /\ verbosity # "Quiet" =>
           /\ Len(LinesOf("Backtracking from")) = Cardinality(dead_ends)
           /\ {l.arg : l \in Range(LinesOf("Backtracking from"))} = dead_ends
    /\ verbosity = "Info" => LinesOf("Backtracking from") = output
    /\ verbosity = "Trace" =>
           /\ Len(LinesOf("Going to evaluate successors of")) = Len(evaluated)
           /\ \A k \in 1..Len(evaluated) :
                  LinesOf("Going to evaluate successors of")[k].arg = evaluated[k].successor
           /\ \A k \in 1..Len(output) :
                  output[k].line = "Backtracking from" =>
                      /\ k < Len(output)
                      /\ output[k + 1].line = "Known dead ends"
                      /\ output[k].arg \in output[k + 1].arg
           /\ \A k \in 1..Len(output) :
                  output[k].line = "Known dead ends" =>
                      /\ k > 1
                      /\ output[k - 1].line = "Backtracking from"
                      /\ Cardinality(output[k].arg) = Len(SelectSeq(SubSeq(output, 1, k),
                             LAMBDA l : l.line = "Known dead ends"))
           /\ Len(LinesOf("Known dead ends")) > 0 =>
                  LinesOf("Known dead ends")[Len(LinesOf("Known dead ends"))].arg = dead_ends

\* a call with Info has backtracked twice and evaluated candidates
C23_Witness ==
    /\ verbosity = "Info"
    /\ Cardinality(dead_ends) >= 2
    /\ Len(evaluated) >= 2
    /\ Len(output) = 2

\* C24: in the JumpingCounter search started at 1 every candidate evaluated
\* and every state entered as an Attempt has a value within 0..=10.
C24_JumpingBounded ==
    (consumer = "JumpingCounter" /\ initial = 1) =>
        /\ \A k \in 1..Len(evaluated) : evaluated[k].successor \in 0..JumpingCeiling
        /\ \A i \in 1..Len(attempts) : attempts[i].state \in 0..JumpingCeiling

\* C29: for the shape in every cell of the board each drawing point has grid
\* coordinates within 0..=7, and the index x + 8*y written by Display lies
\* within the screen buffer of 64 entries.
C29_DrawnInsideBuffer ==
    \A x \in 0..2, y \in 0..2 :
        LET pts == screen_points(board, x, y)
            indices == screen_indices(board, x, y)
        IN \A k \in 1..Len(pts) :
               /\ pts[k].x \in 0..7
               /\ pts[k].y \in 0..7
               /\ indices[k] \in 0..(ScreenBufferLen - 1)

\* a board whose drawing touches the first and the last entry of the buffer
C29_Witness ==
    /\ board[0] = "LargeCornerTL"
    /\ board[8] = "LargeCornerBR"
    /\ 0 \in Range(screen_indices(board, 0, 0))
    /\ 63 \in Range(screen_indices(board, 2, 2))

\* the locals of make_board_via_tui as they are now
Now == Locals(board, shapes_to_place, board_index, shape_to_allocate_index,
              clockwise_rotations, stage)

\* the step leaves the locals of make_board_via_tui alone, but for the board
\* that the top of the loop has set the selected shape into
OnlyPlaced ==
    /\ board' = Placed(Now)
    /\ \A i \in 0..8 : i # board_index => board'[i] = board[i]
    /\ shapes_to_place' = shapes_to_place
    /\ board_index' = board_index
    /\ stage' = "edit"

\* C25: in make_board_via_tui the assertions of the loop hold at every
\* iteration (shapes_to_place is not empty, clockwise_rotations is within
\* 0..4, shape_to_allocate_index is an index of shapes_to_place, board_index
\* is below 9); Left and Right change only the rotation count, modulo 4, Up
\* and Down change only the selected index, wrapping around, and Enter on a
\* colliding placement changes nothing.
C25_EditorLoop ==
    /\ [](stage # "panic")
    /\ [](stage = "edit" =>
              /\ Len(shapes_to_place) > 0
              /\ clockwise_rotations \in 0..3
              /\ shape_to_allocate_index \in 0..(Len(shapes_to_place) - 1)
              /\ board_index \in 0..8)
    /\ [][(stage = "edit" /\ op'.name = "key") =>
              /\ op'.code = "Left" =>
                     /\ OnlyPlaced
                     /\ shape_to_allocate_index' = shape_to_allocate_index
                     /\ clockwise_rotations' = (clockwise_rotations + 3) % 4
              /\ op'.code = "Right" =>
                     /\ OnlyPlaced
                     /\ shape_to_allocate_index' = shape_to_allocate_index
                     /\ clockwise_rotations' = (clockwise_rotations + 1) % 4
              /\ op'.code = "Up" =>
                     /\ OnlyPlaced
                     /\ clockwise_rotations' = clockwise_rotations
                     /\ shape_to_allocate_index' =
                            (shape_to_allocate_index + Len(shapes_to_place) - 1)
                                % Len(shapes_to_place)
              /\ op'.code = "Down" =>
                     /\ OnlyPlaced
                     /\ clockwise_rotations' = clockwise_rotations
                     /\ shape_to_allocate_index' =
                            (shape_to_allocate_index + 1) % Len(shapes_to_place)
              /\ (op'.code = "Enter" /\ SharedGridPoint(Placed(Now), no_move)) =>
                     /\ OnlyPlaced
                     /\ clockwise_rotations' = clockwise_rotations
                     /\ shape_to_allocate_index' = shape_to_allocate_index]_vars

\* Enter was pressed on a colliding placement after Left had taken the
\* rotation count from 0 to 3
C25_Witness ==
    /\ stage = "edit"
    /\ op = [name |-> "key", code |-> "Enter"]
    /\ ~is_collission_free(board, no_move)
    /\ clockwise_rotations = 3
    /\ keys = 2

\* exactly one cell of b is Free and no two tiles share a grid point
ValidBoard(b) ==
    /\ Cardinality({i \in 0..8 : b[i] = "Free"}) = 1
    /\ ~SharedGridPoint(b, no_move)

\* C26: a move keeps the board valid: every board in the history of
\* play_game_via_tui has exactly one Free cell and no two tiles sharing a grid
\* point, and is_valid says so.
C26_MovesKeepValid ==
    \A k \in 1..Len(history) : is_valid(history[k]) /\ ValidBoard(history[k])

\* two moves have been made, the second not undoing the first
C26_Witness ==
    /\ stage = "play"
    /\ Len(history) = 3
    /\ history[3] # history[1]
    /\ history[2] # history[1]

\* the shapes a shape can be rotated into
RotationsOf(s) == {Rotated(s, n) : n \in 0..3}

\* C27: every board make_board_via_tui returns is valid: it holds each of the
\* nine shapes to place once, up to rotation, so exactly one cell is Free, and
\* no two tiles share a grid point; the assertion of play_game_via_tui that
\* the board is valid holds.
C27_MadeBoardValid ==
    /\ stage # "panic_invalid"
    /\ stage = "made" =>
           /\ is_valid(board)
           /\ ValidBoard(board)
           /\ \A t \in Range(ShapesToPlace) :
                  Cardinality({i \in 0..8 : board[i] \in RotationsOf(t)})
                      = Cardinality({k \in 1..9 : ShapesToPlace[k] \in RotationsOf(t)})

\* a board was returned that has the shapes in another order than the list
C27_Witness ==
    /\ stage = "made"
    /\ board[7] # "Ship"
    /\ keys = MaxKeys

\* C28: make_board_via_tui returns no board for which is_won is true, so the
\* assertion of play_game_via_tui that the board is not already won holds.
C28_NeverWonAtStart ==
    /\ stage # "panic_won"
    /\ stage = "made" => ~is_won(board)

====
